---- MODULE Spec2Model ----
(***************************************************************************)
(* Model of src/2/ip_pairs_finder.py: the reachability checker             *)
(* (IPAvailabilityChecker), the two property extractors                    *)
(* (SumOctetsExtractor, CountOnesExtractor) and IPPairFinder.find_pairs.   *)
(*                                                                         *)
(* Text is a sequence of one-character strings ("10.2" is                  *)
(* <<"1","0",".","2">>), so that formatting and parsing are computed.      *)
(* A 32-bit unsigned integer is a record [hi, lo] of its two 16-bit        *)
(* halves (value = hi * 2^16 + lo), because TLC's integers are signed      *)
(* 32-bit and cannot hold 2^32 - 1.                                        *)
(***************************************************************************)
EXTENDS Integers, Sequences, FiniteSets, TLC

VARIABLES
    ips,        \* find_pairs argument: the seed list
    strategy,   \* the prop_extractor in use: "SumOctets" or "CountOnes"
    attempts,   \* IPPairFinder.attempts
    caller,     \* who runs generate_candidate: "find_pairs" or "direct"
    pc,         \* position in the code
    i,          \* 1-based position of `ip` in `ips` (the outer for loop)
    att,        \* iterations of `for _ in range(self.attempts)` completed
    prop,       \* find_pairs' prop / generate_candidate's prop_value
    found,      \* find_pairs' found flag
    candidate,  \* the value generate_candidate returned
    pairs,      \* find_pairs' result list
    lastProbe,  \* the latest is_available call: [ip, out, ans, runs]
    origin,     \* history: for each row of pairs, the seed position and attempt that produced it
    avail,      \* history: the oracle's answer for each seed probed so far
    cur         \* history: counters of the seed being processed

vars == <<ips, strategy, attempts, caller, pc, i, att, prop, found, candidate,
          pairs, lastProbe, origin, avail, cur>>

(***************************************************************************)
(* Bounds of the model.                                                    *)
(***************************************************************************)
MaxSeeds == 2
MaxAttempts == 2
Slack == 2

(***************************************************************************)
(* Program constants.                                                      *)
(***************************************************************************)
OctetMax == 255
WordBits == 32
HalfMax == 2^16 - 1

(***************************************************************************)
(* Text helpers: str(int), int(str), str.split.                            *)
(***************************************************************************)
DigitChars == <<"0", "1", "2", "3", "4", "5", "6", "7", "8", "9">>

RECURSIVE Str(_)
Str(n) ==
    IF n < 0 THEN <<"-">> \o Str(-n)
    ELSE IF n < 10 THEN <<DigitChars[n + 1]>>
    ELSE Str(n \div 10) \o <<DigitChars[(n % 10) + 1]>>

DigitValue(c) == CHOOSE v \in 0..9 : DigitChars[v + 1] = c

RECURSIVE ParseInt(_)
ParseInt(s) ==
    IF s[1] = "-" THEN -ParseInt(Tail(s))
    ELSE IF Len(s) = 1 THEN DigitValue(s[1])
    ELSE ParseInt(SubSeq(s, 1, Len(s) - 1)) * 10 + DigitValue(s[Len(s)])

RECURSIVE Split(_, _)
Split(s, sep) ==
    IF \A k \in 1..Len(s) : s[k] # sep THEN <<s>>
    ELSE LET k == CHOOSE k \in 1..Len(s) :
                      s[k] = sep /\ \A j \in 1..(k - 1) : s[j] # sep
         IN  <<SubSeq(s, 1, k - 1)>> \o Split(SubSeq(s, k + 1, Len(s)), sep)

RECURSIVE Sum(_)
Sum(xs) == IF xs = <<>> THEN 0 ELSE Head(xs) + Sum(Tail(xs))

\* f"{a}.{b}.{c}.{d}"
FormatQuad(a, b, c, d) ==
    Str(a) \o <<".">> \o Str(b) \o <<".">> \o Str(c) \o <<".">> \o Str(d)

(***************************************************************************)
(* SumOctetsExtractor.                                                     *)
(***************************************************************************)
\* sum(int(octet) for octet in ip.split('.'))
SumOctets_extract_property(ip) ==
    LET parts == Split(ip, ".")
    IN  Sum([k \in 1..Len(parts) |-> ParseInt(parts[k])])

\* a variant that leaves c out of the subtraction
SumOctets_d_without_c(prop_value, a, b, c) == prop_value - (a + b)

\* d = prop_value - (a + b + c)
SumOctets_d(prop_value, a, b, c) == prop_value - (a + b + c)

\* a variant with a strict lower comparison
SumOctets_accepts_strict(d) == 0 < d /\ d <= OctetMax

\* if 0 <= d <= 255
SumOctets_accepts(d) == 0 <= d /\ d <= OctetMax

\* candidate = f"{a}.{b}.{c}.{d}"
SumOctets_candidate(a, b, c, d) == FormatQuad(a, b, c, d)

(***************************************************************************)
(* CountOnesExtractor.                                                     *)
(***************************************************************************)
\* socket.inet_aton on a canonical dotted quad: the four octets as bytes
inet_aton(ip) ==
    LET parts == Split(ip, ".")
    IN  [k \in 1..Len(parts) |-> ParseInt(parts[k])]

\* int.from_bytes(bytes, byteorder='big')
from_bytes_big(bs) == [hi |-> bs[1] * 256 + bs[2], lo |-> bs[3] * 256 + bs[4]]

\* ip_int.to_bytes(4, byteorder='big')
to_bytes_big(n) == <<n.hi \div 256, n.hi % 256, n.lo \div 256, n.lo % 256>>

\* socket.inet_ntoa
inet_ntoa(bs) == FormatQuad(bs[1], bs[2], bs[3], bs[4])

\* the binary digits of a half, most significant first, as bin() writes them
RECURSIVE BinDigits(_)
BinDigits(n) ==
    IF n < 2 THEN <<DigitChars[n + 1]>>
    ELSE BinDigits(n \div 2) \o <<DigitChars[(n % 2) + 1]>>

\* str.count("1")
CountChar(s, ch) == Cardinality({k \in 1..Len(s) : s[k] = ch})

\* bin(ip_int).count("1"); the digits of the low half below a non-zero high
\* half are padded with "0", which adds no "1"
bin_count_ones(n) == CountChar(BinDigits(n.hi), "1") + CountChar(BinDigits(n.lo), "1")

CountOnes_extract_property(ip) == bin_count_ones(from_bytes_big(inet_aton(ip)))

\* a variant that compares with >= instead of ==
CountOnes_accepts_at_least(ip_int, prop_value) == bin_count_ones(ip_int) >= prop_value

\* if bin(ip_int).count("1") == prop_value
CountOnes_accepts(ip_int, prop_value) == bin_count_ones(ip_int) = prop_value

\* candidate = socket.inet_ntoa(ip_int.to_bytes(4, byteorder='big'))
CountOnes_candidate(ip_int) == inet_ntoa(to_bytes_big(ip_int))

\* prop_extractor.extract_property(ip), dispatched on the extractor
extract_property(s, ip) ==
    IF s = "SumOctets" THEN SumOctets_extract_property(ip)
    ELSE CountOnes_extract_property(ip)

(***************************************************************************)
(* IPAvailabilityChecker._check_ping on one outcome of the ping process:   *)
(* "rc0" (return code 0), "rc_nonzero" (any other return code: timeout,    *)
(* no route), "exception" (subprocess.run raised: no ping tool).           *)
(* The result says whether the call raised, the value it returned and how  *)
(* many times it ran the process.                                          *)
(***************************************************************************)
ProbeOutcomes == {"rc0", "rc_nonzero", "exception"}

\* a variant without the try/except around subprocess.run
check_ping_uncaught(out) ==
    [raised |-> (out = "exception"), value |-> (out = "rc0"), runs |-> 1]

check_ping(out) ==
    [raised |-> FALSE, value |-> (out = "rc0"), runs |-> 1]

\* is_available(ip) returns self._check_ping(ip)
is_available(out) == check_ping(out)

(***************************************************************************)
(* The samples the inputs and the random draws are taken from.             *)
(***************************************************************************)
\* random.randint(0, 255): the two ends of the range
OctetSample == {0, OctetMax}

Max(x, y) == IF x > y THEN x ELSE y
Min(x, y) == IF x < y THEN x ELSE y
Ones16(k) == 2^k - 1

\* the 32-bit value with its k lowest bits set, and with its k highest bits set
LowOnes(k) == [hi |-> Ones16(Max(k - 16, 0)), lo |-> Ones16(Min(k, 16))]
HighOnes(k) ==
    [hi |-> HalfMax - Ones16(16 - Min(k, 16)),
     lo |-> HalfMax - Ones16(16 - Max(k - 16, 0))]

\* seed addresses: two whose property only they have, one that shares its
\* property with other addresses, under either extractor
SeedSample ==
    {FormatQuad(0, 0, 0, 0), FormatQuad(255, 0, 0, 1), FormatQuad(255, 255, 255, 255)}

\* random.randint(0, 2 ** 32 - 1): for every bit count the value with the lowest
\* bits set and the value with the highest bits set (one value for 0 and for
\* 32), and the seeds' own values
Int32Sample ==
    {LowOnes(k) : k \in 0..WordBits} \cup {HighOnes(k) : k \in 0..WordBits}
        \cup {from_bytes_big(inet_aton(ip)) : ip \in SeedSample}

\* the sampled values the CountOnes loop accepts for each target in range, and
\* whether it rejects some sampled value, computed once (a lookup table only)
CountOnesAcceptedTable ==
    [t \in 0..WordBits |-> {n \in Int32Sample : CountOnes_accepts(n, t)}]
CountOnesAccepted(t) ==
    IF t \in DOMAIN CountOnesAcceptedTable THEN CountOnesAcceptedTable[t]
    ELSE {n \in Int32Sample : CountOnes_accepts(n, t)}

SeedLists == UNION {[1..n -> SeedSample] : n \in 0..MaxSeeds}

Strategies == {"SumOctets", "CountOnes"}

\* the range of targets the extractor's contract allows
MaxTarget(s) == IF s = "SumOctets" THEN 4 * OctetMax ELSE WordBits
InRange(s, t) == 0 <= t /\ t <= MaxTarget(s)

NoProbe == [ip |-> <<>>, out |-> "none", ans |-> FALSE, runs |-> 0]

\* gens: generate_candidate calls; same: candidates equal to the seed;
\* probed: candidates probed; hits: candidates the oracle answered true for
NoCounts == [gens |-> 0, same |-> 0, probed |-> 0, hits |-> 0]

(***************************************************************************)
(* find_pairs.                                                             *)
(***************************************************************************)
\* the row's second and fourth fields, a Cyrillic literal in the source
Available == "Dostupen"

\* the row's fifth field, an f-string: a Cyrillic literal, "=", str(prop)
PropertyLabel(p) == <<"Svoistvo=">> \o Str(p)

\* the row find_pairs appends
Row(ip, cand, p) == <<ip, Available, cand, Available, PropertyLabel(p)>>

\* variants of list.append: insert at the front; skip a row already present
ListPrepend(list, x) == <<x>> \o list
ListAppendUnique(list, x) ==
    IF \E k \in 1..Len(list) : list[k] = x THEN list ELSE Append(list, x)

\* list.append
ListAppend(list, x) == Append(list, x)

\* variants of the attempt loop: one iteration too many; break after a success
LoopContinuesInclusive(a, f) == a <= attempts
LoopContinuesUntilFound(a, f) == a < attempts /\ ~f

\* for _ in range(self.attempts): whether another iteration follows `a` completed ones
LoopContinues(a, f) == a < attempts

\* variants of the two tests that ignore the oracle's answer
SeedTestAlways(r) == TRUE
CandidateTestAlways(r) == TRUE

\* if self.checker.is_available(ip): the test on the seed's answer
SeedTest(r) == r.value

\* if candidate == ip: continue
SameAsSeed(cand, ip) == cand = ip

\* if self.checker.is_available(candidate): the test on the candidate's answer
CandidateTest(r) == r.value

Init ==
    /\ ips \in SeedLists
    /\ strategy \in Strategies
    /\ attempts \in 0..MaxAttempts
    /\ caller = "find_pairs"
    /\ pc = "for_ip"
    /\ i = 1
    /\ att = 0
    /\ prop = 0
    /\ found = FALSE
    /\ candidate = <<>>
    /\ pairs = <<>>
    /\ lastProbe = NoProbe
    /\ origin = <<>>
    /\ avail = <<>>
    /\ cur = NoCounts

\* lines 276-279 and 290-291: the next seed is probed
CheckSeed ==
    /\ pc = "for_ip"
    /\ i <= Len(ips)
    /\ \E out \in ProbeOutcomes :
         LET r == is_available(out) IN
         /\ lastProbe' = [ip |-> ips[i], out |-> out, ans |-> r.value, runs |-> r.runs]
         /\ IF r.raised
            THEN /\ pc' = "raised"
                 /\ UNCHANGED <<i, att, prop, found, avail, cur>>
            ELSE /\ avail' = Append(avail, r.value)
                 /\ cur' = NoCounts
                 /\ IF SeedTest(r)
                    THEN /\ prop' = extract_property(strategy, ips[i])
                         /\ found' = FALSE
                         /\ att' = 0
                         /\ pc' = "for_attempt"
                         /\ UNCHANGED i
                    ELSE /\ i' = i + 1
                         /\ pc' = "for_ip"
                         /\ UNCHANGED <<att, prop, found>>
    /\ UNCHANGED <<ips, strategy, attempts, caller, candidate, pairs, origin>>

\* lines 280-281: another attempt starts and calls generate_candidate
BeginAttempt ==
    /\ pc = "for_attempt"
    /\ LoopContinues(att, found)
    /\ pc' = "gen"
    /\ cur' = [cur EXCEPT !.gens = @ + 1]
    /\ UNCHANGED <<ips, strategy, attempts, caller, i, att, prop, found, candidate,
                   pairs, lastProbe, origin, avail>>

\* lines 206-211 and 242-244: a draw the while loop rejects; its locals are
\* overwritten by the next draw before anything reads them
DrawReject ==
    /\ pc = "gen"
    /\ IF strategy = "SumOctets"
       THEN ~(\A a, b, c \in OctetSample :
                SumOctets_accepts(SumOctets_d(prop, a, b, c)))
       ELSE CountOnesAccepted(prop) # Int32Sample
    /\ UNCHANGED vars

\* lines 206-213 and 242-246: a draw the while loop accepts and returns
DrawAccept ==
    /\ pc = "gen"
    /\ \/ /\ strategy = "SumOctets"
          /\ \E a, b, c \in OctetSample :
               LET d == SumOctets_d(prop, a, b, c) IN
               /\ SumOctets_accepts(d)
               /\ candidate' = SumOctets_candidate(a, b, c, d)
       \/ /\ strategy = "CountOnes"
          /\ \E ip_int \in CountOnesAccepted(prop) :
               candidate' = CountOnes_candidate(ip_int)
    /\ pc' = IF caller = "find_pairs" THEN "cand" ELSE "returned"
    /\ UNCHANGED <<ips, strategy, attempts, caller, i, att, prop, found, pairs,
                   lastProbe, origin, avail, cur>>

\* lines 282-287: the candidate is compared with the seed, probed and recorded
CheckCandidate ==
    /\ pc = "cand"
    /\ IF SameAsSeed(candidate, ips[i])
       THEN /\ att' = att + 1
            /\ pc' = "for_attempt"
            /\ cur' = [cur EXCEPT !.same = @ + (IF candidate = ips[i] THEN 1 ELSE 0)]
            /\ UNCHANGED <<found, pairs, lastProbe, origin>>
       ELSE \E out \in ProbeOutcomes :
            LET r == is_available(out) IN
            /\ lastProbe' = [ip |-> candidate, out |-> out, ans |-> r.value,
                             runs |-> r.runs]
            /\ IF r.raised
               THEN /\ pc' = "raised"
                    /\ UNCHANGED <<att, found, pairs, origin, cur>>
               ELSE /\ cur' = [cur EXCEPT !.probed = @ + 1,
                                          !.hits = @ + (IF r.value THEN 1 ELSE 0)]
                    /\ att' = att + 1
                    /\ pc' = "for_attempt"
                    /\ IF CandidateTest(r)
                       THEN /\ pairs' = ListAppend(pairs, Row(ips[i], candidate, prop))
                            /\ origin' = ListAppend(origin, [idx |-> i, attempt |-> att + 1])
                            /\ found' = TRUE
                       ELSE UNCHANGED <<found, pairs, origin>>
    /\ UNCHANGED <<ips, strategy, attempts, caller, i, prop, candidate, avail>>

\* lines 280 and 288-289: the attempts are used up, the outer loop moves on
EndSeed ==
    /\ pc = "for_attempt"
    /\ ~LoopContinues(att, found)
    /\ i' = i + 1
    /\ pc' = "for_ip"
    /\ UNCHANGED <<ips, strategy, attempts, caller, att, prop, found, candidate,
                   pairs, lastProbe, origin, avail, cur>>

\* lines 292-293: return pairs
Return ==
    /\ pc = "for_ip"
    /\ i > Len(ips)
    /\ pc' = "done"
    /\ UNCHANGED <<ips, strategy, attempts, caller, i, att, prop, found, candidate,
                   pairs, lastProbe, origin, avail, cur>>

Next ==
    \/ CheckSeed
    \/ BeginAttempt
    \/ DrawReject
    \/ DrawAccept
    \/ CheckCandidate
    \/ EndSeed
    \/ Return

Spec == Init /\ [][Next]_vars

(***************************************************************************)
(* generate_candidate called directly, with any target in or around the    *)
(* valid range of the extractor.                                           *)
(***************************************************************************)
Targets(s) == (0 - Slack)..(MaxTarget(s) + Slack)

InitGen ==
    /\ ips = <<>>
    /\ strategy \in Strategies
    /\ attempts = 0
    /\ caller = "direct"
    /\ pc = "gen"
    /\ i = 1
    /\ att = 0
    /\ prop \in Targets(strategy)
    /\ found = FALSE
    /\ candidate = <<>>
    /\ pairs = <<>>
    /\ lastProbe = NoProbe
    /\ origin = <<>>
    /\ avail = <<>>
    /\ cur = NoCounts

NextGen ==
    \/ DrawReject
    \/ DrawAccept

SpecGen == InitGen /\ [][NextGen]_vars

\* every draw has a positive probability, so an accepting draw that stays
\* possible is eventually made
SpecGenFair == SpecGen /\ WF_vars(DrawAccept)

(***************************************************************************)
(* Notions used by the properties.                                         *)
(***************************************************************************)
\* the seed the counters in cur belong to: the latest seed probed
CurSeed == Len(avail)

\* the positions of the rows that seed number j produced
RowsOf(j) == {k \in 1..Len(origin) : origin[k].idx = j}

IsPrefix(xs, ys) == Len(xs) <= Len(ys) /\ SubSeq(ys, 1, Len(xs)) = xs

RowSeed(row) == row[1]
RowCandidate(row) == row[3]
RowLabel(row) == row[5]

\* the run was given one seed, the oracle answered true for it and for every
\* candidate it was asked about, and find_pairs has returned
OneSeedAllCandidatesReachable ==
    /\ pc = "done"
    /\ Len(ips) = 1
    /\ avail = <<TRUE>>
    /\ cur.hits = cur.probed

\* the seed is the only address with its property: all octets 0, or all 255
SoleOwner(s, ip) == extract_property(s, ip) \in {0, MaxTarget(s)}

(***************************************************************************)
(* C1: every pair of find_pairs was appended only after the oracle         *)
(* answered true for its seed and, later, in the step that appends it,     *)
(* true for the candidate of that same attempt; its candidate differs      *)
(* from its seed.                                                          *)
(***************************************************************************)
PairsOnlyAfterBothReachable ==
    /\ [](/\ Len(origin) = Len(pairs)
          /\ \A k \in 1..Len(pairs) :
               /\ origin[k].idx \in 1..Len(avail)
               /\ avail[origin[k].idx]
               /\ RowSeed(pairs[k]) = ips[origin[k].idx]
               /\ RowCandidate(pairs[k]) # RowSeed(pairs[k]))
    /\ [][pairs' # pairs =>
            /\ pc = "cand"
            /\ avail[i]
            /\ pairs' = Append(pairs, Row(ips[i], candidate, prop))
            /\ candidate # ips[i]
            /\ cur'.probed = cur.probed + 1
            /\ lastProbe'.ip = candidate
            /\ lastProbe'.ans]_vars

PairAppendedWitness ==
    /\ Len(pairs) >= 1
    /\ lastProbe.ans
    /\ lastProbe.ip = RowCandidate(pairs[Len(pairs)])

\* what C2 asks of one row
RowSharesProperty(row) ==
    /\ extract_property(strategy, RowSeed(row))
         = extract_property(strategy, RowCandidate(row))
    /\ RowLabel(row) = PropertyLabel(extract_property(strategy, RowSeed(row)))

(***************************************************************************)
(* C2: for every pair returned, the extractor in use gives the seed and    *)
(* the candidate the same property, and that value is the one recorded in  *)
(* the pair. Stated on the steps: every row has this when it enters        *)
(* pairs, and the rows already in pairs never change.                      *)
(***************************************************************************)
PairsShareProperty ==
    /\ pairs = <<>>
    /\ [][/\ IsPrefix(pairs, pairs')
          /\ strategy' = strategy
          /\ \A k \in (Len(pairs) + 1)..Len(pairs') : RowSharesProperty(pairs'[k])]_vars

PairsSharePropertyWitness ==
    /\ pc = "done"
    /\ Len(pairs) >= 2
    /\ RowCandidate(pairs[1]) # RowCandidate(pairs[2])

(***************************************************************************)
(* C3: for the seed being processed, generate_candidate has been called    *)
(* at most `attempts` times, whatever the oracle answered; an attempt      *)
(* whose candidate equals the seed yields no pair and no probe but uses    *)
(* up one of the calls; and while the oracle has answered true for no      *)
(* candidate of the seed, the seed has no pair.                            *)
(***************************************************************************)
AttemptBudgetRespected ==
    /\ [](/\ cur.gens <= attempts
          /\ (pc \in {"for_attempt", "gen", "cand"} /\ caller = "find_pairs" =>
                cur.gens = att + (IF pc = "for_attempt" THEN 0 ELSE 1))
          /\ cur.same + cur.probed <= cur.gens
          /\ Cardinality(RowsOf(CurSeed)) + cur.same <= cur.gens
          /\ (cur.hits = 0 => RowsOf(CurSeed) = {}))
    /\ [][(pc = "cand" /\ candidate = ips[i]) =>
            /\ pairs' = pairs
            /\ lastProbe' = lastProbe
            /\ att' = att + 1]_vars

AttemptBudgetWitness ==
    /\ pc = "for_attempt"
    /\ attempts = MaxAttempts
    /\ att = attempts
    /\ cur.same >= 1
    /\ cur.probed >= 1
    /\ cur.hits = 0

(***************************************************************************)
(* C4: whenever generate_candidate(t) returns for a target t in the valid  *)
(* range of its extractor, the same extractor's extract_property of the    *)
(* returned address is t.                                                  *)
(***************************************************************************)
RoundTrip ==
    (pc = "returned" /\ InRange(strategy, prop)) =>
        extract_property(strategy, candidate) = prop

RoundTripWitness ==
    /\ pc = "returned"
    /\ strategy = "CountOnes"
    /\ prop = 17

(***************************************************************************)
(* C5: a seed the oracle reports unreachable is skipped: it produces no    *)
(* pair, no generate_candidate call and no further probe, and the loop     *)
(* goes on to the next seed; with no reachable seed at all find_pairs      *)
(* returns the empty list.                                                 *)
(***************************************************************************)
UnreachableSeedSkipped ==
    /\ [](/\ \A k \in 1..Len(origin) : avail[origin[k].idx]
          /\ (pc \in {"for_attempt", "gen", "cand"} /\ caller = "find_pairs"
                => i = CurSeed /\ avail[i])
          /\ (CurSeed >= 1 /\ ~avail[CurSeed] => cur = NoCounts)
          /\ ((pc = "done" /\ \A j \in 1..Len(avail) : ~avail[j]) => pairs = <<>>))
    /\ [][(pc = "for_ip" /\ i <= Len(ips) /\ ~lastProbe'.ans) =>
            /\ pc' = "for_ip"
            /\ i' = i + 1
            /\ pairs' = pairs
            /\ candidate' = candidate
            /\ cur' = NoCounts]_vars

UnreachableSeedWitness ==
    /\ pc = "done"
    /\ Len(ips) = MaxSeeds
    /\ \A j \in 1..Len(avail) : ~avail[j]
    /\ attempts >= 1

(***************************************************************************)
(* C6 as stated: with one reachable seed and every candidate reported      *)
(* reachable, find_pairs returns at least one pair, every pair has the     *)
(* seed's property and none has candidate = seed.                          *)
(***************************************************************************)
OneSeedYieldsAPair ==
    (OneSeedAllCandidatesReachable /\ attempts >= 1) =>
        /\ Len(pairs) >= 1
        /\ \A k \in 1..Len(pairs) :
             /\ RowLabel(pairs[k]) = PropertyLabel(extract_property(strategy, ips[1]))
             /\ RowCandidate(pairs[k]) # ips[1]

(***************************************************************************)
(* C6 amended: with one reachable seed and every candidate reported        *)
(* reachable, find_pairs returns exactly one pair for each of its          *)
(* attempts whose candidate differs from the seed, every pair has the      *)
(* seed's property and none has candidate = seed; a seed that is the only  *)
(* address with its property yields no pair.                               *)
(***************************************************************************)
OneSeedYieldsAPairPerOtherCandidate ==
    OneSeedAllCandidatesReachable =>
        /\ Len(pairs) = attempts - cur.same
        /\ \A k \in 1..Len(pairs) :
             /\ RowLabel(pairs[k]) = PropertyLabel(extract_property(strategy, ips[1]))
             /\ RowCandidate(pairs[k]) # ips[1]
        /\ (SoleOwner(strategy, ips[1]) => cur.same = attempts /\ pairs = <<>>)

OneSeedWitness ==
    /\ OneSeedAllCandidatesReachable
    /\ cur.same >= 1
    /\ Len(pairs) >= 1

(***************************************************************************)
(* C7: the pairs are in seed order, within one seed in attempt order, and  *)
(* no step reorders or removes a pair already appended.                    *)
(***************************************************************************)
PairsInSeedAndAttemptOrder ==
    /\ [](/\ Len(origin) = Len(pairs)
          /\ \A k \in 1..Len(pairs) : RowSeed(pairs[k]) = ips[origin[k].idx]
          /\ \A k, l \in 1..Len(origin) :
               k < l =>
                 \/ origin[k].idx < origin[l].idx
                 \/ /\ origin[k].idx = origin[l].idx
                    /\ origin[k].attempt < origin[l].attempt)
    /\ [][IsPrefix(pairs, pairs') /\ IsPrefix(origin, origin')]_vars

PairsOrderWitness ==
    /\ Len(pairs) >= 3
    /\ origin[1].idx = 1
    /\ origin[2].idx = 1
    /\ origin[3].idx = 2
    /\ RowCandidate(pairs[1]) # RowCandidate(pairs[2])

(***************************************************************************)
(* C8: generate_candidate, given a target in the valid range of its        *)
(* extractor, eventually returns when every possible draw is eventually    *)
(* made; given a target outside the range it never returns.                *)
(***************************************************************************)
GenerateTerminatesInRange ==
    /\ (InRange(strategy, prop) ~> pc = "returned")
    /\ [](~InRange(strategy, prop) => pc = "gen")

GenerateTerminatesWitness ==
    /\ pc = "returned"
    /\ strategy = "SumOctets"
    /\ prop = 0

(***************************************************************************)
(* C9: is_available never raises: it runs the probe once, returns true     *)
(* exactly when the probe's return code is 0, and false on any other       *)
(* return code or when running the probe failed, so find_pairs never       *)
(* stops with an error.                                                    *)
(***************************************************************************)
OracleNeverRaises ==
    /\ pc # "raised"
    /\ (lastProbe.out # "none" =>
          /\ lastProbe.runs = 1
          /\ (lastProbe.ans <=> lastProbe.out = "rc0"))

OracleFailureWitness ==
    /\ lastProbe.out = "exception"
    /\ pc = "for_attempt"
    /\ Len(pairs) >= 1

(***************************************************************************)
(* C10: the seed being processed has exactly as many pairs as it has had   *)
(* attempts whose candidate differs from the seed and was reported         *)
(* reachable; a reachable seed uses all its attempts even after a          *)
(* success, and a repeated (seed, candidate) is appended again.            *)
(***************************************************************************)
OnePairPerReachableCandidate ==
    /\ Len(pairs) = Len(origin)
    /\ (CurSeed >= 1 => Cardinality(RowsOf(CurSeed)) = cur.hits)
    /\ cur.probed + cur.same + (IF pc \in {"gen", "cand"} THEN 1 ELSE 0) = cur.gens
    /\ ((pc \in {"for_ip", "done"} /\ CurSeed >= 1 /\ avail[CurSeed]) =>
          cur.gens = attempts)

RepeatedPairWitness ==
    /\ pc = "done"
    /\ Len(pairs) >= 2
    /\ pairs[1] = pairs[2]

====
